---- MODULE Spec2Model ----
(***************************************************************************)
(* Model of the Snap_automate platform: the express/better-sqlite3 server  *)
(* (src/server.ts) and the dashboard client that drives it                 *)
(* (src/unnamed/part_000).                                                 *)
(*                                                                         *)
(* Node runs every route handler to completion and better-sqlite3 is       *)
(* synchronous, so one handler is one atomic step on the database.         *)
(* Optional values (SQL NULL, a JSON field that is undefined) are the      *)
(* empty tuple None; a present value v is Some(v) = <<v>>.                 *)
(***************************************************************************)
EXTENDS Integers, Sequences, FiniteSets, TLC

\* ---------------------------------------------------------------- bounds
MaxTime == 2
MaxScans == 2
MaxPatchId == 1
MaxCalls == 3
MaxChannels == 2

\* media, logs, channels: the tables of platform.db. resp: the last response the server
\* sent. now: the wall clock. scans: how many scan requests were served.
\* loading, calls, cmedia: the dashboard's loading flag, its handleScan and
\* handlePublishNow invocations, and the media list it last fetched.
VARIABLES media, logs, channels, now, scans, resp, loading, calls, cmedia

vars == <<media, logs, channels, now, scans, resp, loading, calls, cmedia>>

serverVars == <<media, logs, channels, now, scans, resp>>

clientVars == <<loading, calls, cmedia>>

None == <<>>
Some(v) == <<v>>

\* ------------------------------------------------------- server: schema
Statuses == {"Pending", "Uploading", "Published", "Failed"}

mockFiles ==
  << [file_name |-> "snap_story_01.mp4", file_id |-> "drive_1", type |-> "video",
      size |-> 1024 * 1024 * 5, aspect_ratio |-> "9:16"],
     [file_name |-> "promo_shot.jpg", file_id |-> "drive_2", type |-> "image",
      size |-> 1024 * 512, aspect_ratio |-> "9:16"],
     [file_name |-> "behind_the_scenes.mp4", file_id |-> "drive_3", type |-> "video",
      size |-> 1024 * 1024 * 12, aspect_ratio |-> "16:9"] >>

\* Mutant: the status column defaulting to 'Uploading'.
NewMediaRowUploading(id, file, t) ==
  [id |-> id,
   file_name |-> file.file_name,
   file_id |-> file.file_id,
   type |-> file.type,
   size |-> file.size,
   aspect_ratio |-> file.aspect_ratio,
   status |-> "Uploading",
   caption |-> None,
   scheduled_time |-> None,
   snapchat_link |-> None,
   created_at |-> t]

\* A row of table media as INSERT INTO media (file_name, file_id, type, size,
\* aspect_ratio) creates it: the other columns take their defaults.
NewMediaRow(id, file, t) ==
  [id |-> id,
   file_name |-> file.file_name,
   file_id |-> file.file_id,
   type |-> file.type,
   size |-> file.size,
   aspect_ratio |-> file.aspect_ratio,
   status |-> "Pending",
   caption |-> None,
   scheduled_time |-> None,
   snapchat_link |-> None,
   created_at |-> t]

\* Mutant: the file_id column without its UNIQUE constraint.
UniqueViolationOff(m, file) == FALSE

\* file_id TEXT UNIQUE: the insert of a stored file_id raises a constraint error.
UniqueViolation(m, file) == \E i \in DOMAIN m : m[i].file_id = file.file_id

\* Mutant: INSERT OR REPLACE, which writes a fresh row over the stored one.
InsertMediaOrReplace(m, file, t) ==
  IF UniqueViolation(m, file)
    THEN [ok |-> TRUE,
          media |-> [i \in DOMAIN m |->
                       IF m[i].file_id = file.file_id THEN NewMediaRow(i, file, t) ELSE m[i]]]
    ELSE [ok |-> TRUE, media |-> Append(m, NewMediaRow(Len(m) + 1, file, t))]

\* Mutant: INSERT OR IGNORE, which does not throw on a stored file_id.
InsertMediaOrIgnore(m, file, t) ==
  IF UniqueViolation(m, file)
    THEN [ok |-> TRUE, media |-> m]
    ELSE [ok |-> TRUE, media |-> Append(m, NewMediaRow(Len(m) + 1, file, t))]

\* One INSERT INTO media. ok is FALSE when the statement throws.
InsertMedia(m, file, t) ==
  IF UniqueViolation(m, file)
    THEN [ok |-> FALSE, media |-> m]
    ELSE [ok |-> TRUE, media |-> Append(m, NewMediaRow(Len(m) + 1, file, t))]

\* Mutant: newCount++ placed after the try block, so that it counts duplicates.
RECURSIVE ScanFilesCountAll(_, _, _, _)
ScanFilesCountAll(files, m, count, t) ==
  IF files = <<>>
    THEN [media |-> m, newCount |-> count]
    ELSE LET r == InsertMedia(m, Head(files), t)
         IN  ScanFilesCountAll(Tail(files), r.media, count + 1, t)

\* The for loop of the scan handler: try the insert, count it unless it threw.
RECURSIVE ScanFiles(_, _, _, _)
ScanFiles(files, m, count, t) ==
  IF files = <<>>
    THEN [media |-> m, newCount |-> count]
    ELSE LET r == InsertMedia(m, Head(files), t)
         IN  ScanFiles(Tail(files), r.media, IF r.ok THEN count + 1 ELSE count, t)

ScanLogEntry(id, t) ==
  [id |-> id, timestamp |-> t, file_name |-> "System", action |-> "Drive Scan",
   status |-> "Success", error_message |-> None]

\* Mutant: the log table keeps the latest entry only.
ReplaceLog(l, entry) == <<entry>>

\* INSERT INTO logs
AppendLog(l, entry) == Append(l, entry)

\* ---------------------------------------------------- server: responses
NoResp == [op |-> "none", code |-> 0, newCount |-> 0, success |-> FALSE, error |-> "none"]

ScanResp(n) == [op |-> "scan", code |-> 200, newCount |-> n, success |-> FALSE, error |-> "none"]

PatchResp == [op |-> "patch", code |-> 200, newCount |-> 0, success |-> TRUE, error |-> "none"]

\* ------------------------------------------------------- server: stats
\* LIMIT 5 of the recentActivity query.
RecentLimit == 5

\* date(t): the calendar day of a clock value; a day is two clock ticks long.
DayOf(t) == t \div 2

\* SELECT COUNT(*) FROM media
RECURSIVE CountRows(_)
CountRows(m) == IF m = <<>> THEN 0 ELSE 1 + CountRows(Tail(m))

\* Mutant: the comparison with 'Pending' also matches 'Uploading'.
RECURSIVE CountStatusLoose(_, _)
CountStatusLoose(m, s) ==
  IF m = <<>>
    THEN 0
    ELSE (IF Head(m).status = s \/ (s = "Pending" /\ Head(m).status = "Uploading")
            THEN 1 ELSE 0) + CountStatusLoose(Tail(m), s)

\* SELECT COUNT(*) FROM media WHERE status = s
RECURSIVE CountStatus(_, _)
CountStatus(m, s) ==
  IF m = <<>>
    THEN 0
    ELSE (IF Head(m).status = s THEN 1 ELSE 0) + CountStatus(Tail(m), s)

\* SELECT COUNT(*) FROM media WHERE status = 'Published'
\*   AND date(created_at) = date('now')
RECURSIVE PublishedToday(_, _)
PublishedToday(m, t) ==
  IF m = <<>>
    THEN 0
    ELSE (IF Head(m).status = "Published" /\ DayOf(Head(m).created_at) = DayOf(t)
            THEN 1 ELSE 0) + PublishedToday(Tail(m), t)

\* The orders ORDER BY created_at DESC may return the rows in: SQL leaves the
\* order of rows with equal created_at open.
CreatedDescOrders(m) ==
  {p \in [DOMAIN m -> DOMAIN m] :
     /\ \A i, j \in DOMAIN m : i # j => p[i] # p[j]
     /\ \A i, j \in DOMAIN m : i < j => m[p[i]].created_at >= m[p[j]].created_at}

\* The first n rows of m taken in order p.
Limit(m, p, n) == [i \in 1 .. (IF Len(m) < n THEN Len(m) ELSE n) |-> m[p[i]]]

StatsResp(m, t, p) ==
  [op |-> "stats", code |-> 200, newCount |-> 0, success |-> FALSE, error |-> "none",
   stats |-> [totalMedia |-> CountRows(m),
              pending |-> CountStatus(m, "Pending"),
              publishedToday |-> PublishedToday(m, t),
              failed |-> CountStatus(m, "Failed")],
   recentActivity |-> Limit(m, p, RecentLimit)]

ChannelResp(id) ==
  [op |-> "channel", code |-> 200, newCount |-> 0, success |-> FALSE, error |-> "none",
   id |-> id]

\* A row of table channels as INSERT INTO channels (name, profile_id,
\* drive_folder_id, daily_limit) creates it.
NewChannelRow(id, body, t) ==
  [id |-> id,
   name |-> body.name,
   profile_id |-> body.profile_id,
   avatar |-> None,
   status |-> "Connected",
   drive_folder_id |-> body.drive_folder_id,
   daily_limit |-> body.daily_limit,
   created_at |-> t]

\* ------------------------------------------------- server: PATCH helpers
\* UPDATE media SET <col> = ? WHERE id = ? : no row matches an unknown id.
UpdateCaption(m, id, v) ==
  [i \in DOMAIN m |-> IF m[i].id = id THEN [m[i] EXCEPT !.caption = Some(v)] ELSE m[i]]

UpdateScheduledTime(m, id, v) ==
  [i \in DOMAIN m |-> IF m[i].id = id THEN [m[i] EXCEPT !.scheduled_time = Some(v)] ELSE m[i]]

UpdateStatus(m, id, v) ==
  [i \in DOMAIN m |-> IF m[i].id = id THEN [m[i] EXCEPT !.status = v] ELSE m[i]]

\* Mutant: caption is written without the test for undefined, so that an
\* omitted caption becomes NULL.
ApplyPatchNulling(m, id, body) ==
  LET m1 == [i \in DOMAIN m |->
               IF m[i].id = id THEN [m[i] EXCEPT !.caption = body.caption] ELSE m[i]]
      m2 == IF body.scheduled_time # None
              THEN UpdateScheduledTime(m1, id, body.scheduled_time[1]) ELSE m1
  IN  IF body.status # None THEN UpdateStatus(m2, id, body.status[1]) ELSE m2

\* The three conditional UPDATE statements of the handler, in order.
ApplyPatch(m, id, body) ==
  LET m1 == IF body.caption # None THEN UpdateCaption(m, id, body.caption[1]) ELSE m
      m2 == IF body.scheduled_time # None
              THEN UpdateScheduledTime(m1, id, body.scheduled_time[1]) ELSE m1
  IN  IF body.status # None THEN UpdateStatus(m2, id, body.status[1]) ELSE m2

\* --------------------------------------------------------------- inputs
Captions == {"a"}

\* 0 is before every clock value, MaxTime + 1 after every clock value.
SchedTimes == {0, MaxTime + 1}

Opt(S) == {None} \cup {Some(v) : v \in S}

Bodies == [caption : Opt(Captions), scheduled_time : Opt(SchedTimes), status : Opt(Statuses)]

\* Ids of requests: stored records and one id that no record has.
PatchIds == (1 .. MaxPatchId) \cup {Len(mockFiles) + 1}

\* A body that carries a status and nothing else.
StatusBody(s) == [caption |-> None, scheduled_time |-> None, status |-> Some(s)]

DailyLimits == {1, 2}

ChannelBodies ==
  [name : {"main"}, profile_id : {"profile_1"}, drive_folder_id : {"folder_1"},
   daily_limit : DailyLimits]

PublishBody == [caption |-> None, scheduled_time |-> None, status |-> Some("Published")]

\* ----------------------------------------------------------------- Init
Init ==
  /\ media = <<>>
  /\ logs = <<>>
  /\ channels = <<>>
  /\ now = 1
  /\ scans = 0
  /\ resp = NoResp
  /\ loading = FALSE
  /\ calls = <<>>
  /\ cmedia = <<>>

\* ------------------------------------------------------ server handlers
\* Mutant: the scan is logged only when it found a new file.
ScanHandlerLogOnlyNew ==
  /\ scans < MaxScans
  /\ LET r == ScanFiles(mockFiles, media, 0, now)
     IN  /\ media' = r.media
         /\ resp' = ScanResp(r.newCount)
         /\ logs' = IF r.newCount > 0
                      THEN AppendLog(logs, ScanLogEntry(Len(logs) + 1, now))
                      ELSE logs
  /\ scans' = scans + 1
  /\ UNCHANGED <<now, channels>>

\* POST /api/media/scan
ScanHandler ==
  /\ scans < MaxScans
  /\ LET r == ScanFiles(mockFiles, media, 0, now)
     IN  /\ media' = r.media
         /\ resp' = ScanResp(r.newCount)
  /\ logs' = AppendLog(logs, ScanLogEntry(Len(logs) + 1, now))
  /\ scans' = scans + 1
  /\ UNCHANGED <<now, channels>>

\* PATCH /api/media/:id
PatchHandler(id, body) ==
  /\ media' = ApplyPatch(media, id, body)
  /\ resp' = PatchResp
  /\ UNCHANGED <<logs, channels, now, scans>>

\* POST /api/channels
ChannelHandler(body) ==
  /\ Len(channels) < MaxChannels
  /\ channels' = Append(channels, NewChannelRow(Len(channels) + 1, body, now))
  /\ resp' = ChannelResp(Len(channels) + 1)
  /\ UNCHANGED <<media, logs, now, scans>>

\* GET /api/stats
StatsHandler ==
  /\ \E p \in CreatedDescOrders(media) : resp' = StatsResp(media, now, p)
  /\ UNCHANGED <<media, logs, channels, now, scans>>

\* ------------------------------------- requests made straight to the API
Scan == ScanHandler /\ UNCHANGED clientVars

Patch(id, body) == PatchHandler(id, body) /\ UNCHANGED clientVars

\* The wall clock (CURRENT_TIMESTAMP) advances.
Tick ==
  /\ now < MaxTime
  /\ now' = now + 1
  /\ UNCHANGED <<media, logs, channels, scans, resp>>
  /\ UNCHANGED clientVars

Next ==
  \/ Scan
  \/ \E id \in PatchIds, body \in Bodies : Patch(id, body)
  \/ Tick

Spec == Init /\ [][Next]_vars

\* ------------------------------- channel registration and the lifecycle
CreateChannel(body) == ChannelHandler(body) /\ UNCHANGED clientVars

\* Ids of lifecycle requests: every record and one id that no record has.
LifecycleIds == 1 .. (Len(mockFiles) + 1)

ChannelNext ==
  \/ \E body \in ChannelBodies : CreateChannel(body)
  \/ Scan
  \/ \E id \in LifecycleIds, s \in Statuses : Patch(id, StatusBody(s))
  \/ Tick

ChannelSpec == Init /\ [][ChannelNext]_vars

\* --------------------------------------------------- the stats query
GetStats == StatsHandler /\ UNCHANGED clientVars

StatsNext ==
  \/ Scan
  \/ \E id \in PatchIds, s \in Statuses : Patch(id, StatusBody(s))
  \/ Tick
  \/ GetStats

StatsSpec == Init /\ [][StatsNext]_vars

\* ------------------------------------------------------ dashboard client
\* An invocation of handleScan or handlePublishNow. pc: "await" while the
\* fetch is outstanding, "resume" once the response is in, "catch" once the
\* fetch has rejected, "done" after the finally block. atIssue: the status the
\* server held for the record when the button was clicked (None for a scan).
NewCall(kind, id, atIssue) ==
  [kind |-> kind, id |-> id, pc |-> "await", resp |-> NoResp, toast |-> "none",
   atIssue |-> atIssue]

StatusOf(m, id) == IF id \in DOMAIN m THEN Some(m[id].status) ELSE None

\* handleScan up to its first await. The Scan Now button is disabled={loading}.
HandleScan ==
  /\ ~loading
  /\ Len(calls) < MaxCalls
  /\ loading' = TRUE
  /\ calls' = Append(calls, NewCall("scan", 0, None))
  /\ UNCHANGED <<cmedia, serverVars>>

\* handlePublishNow(id) up to its first await. The Publish Now button is
\* rendered for the rows the client holds as Pending; loading does not disable it.
HandlePublishNow(id) ==
  /\ id \in DOMAIN cmedia
  /\ cmedia[id].status = "Pending"
  /\ Len(calls) < MaxCalls
  /\ loading' = TRUE
  /\ calls' = Append(calls, NewCall("publish", id, StatusOf(media, id)))
  /\ UNCHANGED <<cmedia, serverVars>>

\* The server serves the request of call c and the response reaches the client.
Serve(c) ==
  /\ calls[c].pc = "await"
  /\ \/ calls[c].kind = "scan" /\ ScanHandler
     \/ calls[c].kind = "publish" /\ PatchHandler(calls[c].id, PublishBody)
  /\ calls' = [calls EXCEPT ![c].pc = "resume", ![c].resp = resp']
  /\ UNCHANGED <<loading, cmedia>>

\* The fetch of call c rejects (the request never reaches the server).
NetFail(c) ==
  /\ calls[c].pc = "await"
  /\ calls' = [calls EXCEPT ![c].pc = "catch"]
  /\ UNCHANGED <<loading, cmedia, serverVars>>

\* The rest of the handler: the toast of the try or of the catch block, then
\* finally { setLoading(false) }.
Resume(c) ==
  /\ calls[c].pc \in {"resume", "catch"}
  /\ calls' = [calls EXCEPT ![c].pc = "done",
                            ![c].toast = IF calls[c].pc = "resume" THEN "success" ELSE "error"]
  /\ loading' = FALSE
  /\ UNCHANGED <<cmedia, serverVars>>

\* fetchData: setMedia(GET /api/media). It runs on mount, every 30 s and after
\* each handler.
FetchData ==
  /\ cmedia' = media
  /\ UNCHANGED <<loading, calls, serverVars>>

ClientNext ==
  \/ HandleScan
  \/ \E id \in 1 .. Len(mockFiles) : HandlePublishNow(id)
  \/ \E c \in 1 .. MaxCalls : c \in DOMAIN calls /\ Serve(c)
  \/ \E c \in 1 .. MaxCalls : c \in DOMAIN calls /\ NetFail(c)
  \/ \E c \in 1 .. MaxCalls : c \in DOMAIN calls /\ Resume(c)
  \/ FetchData

ClientSpec == Init /\ [][ClientNext]_vars

\* ------------------------------------------ scan requests in flight together
\* A scan request of any API client (a second dashboard, a timer): nothing
\* makes it wait for the requests already in flight. Its atIssue is the number
\* of rows the store held when it was sent.
ApiScan ==
  /\ Len(calls) < MaxCalls
  /\ calls' = Append(calls, NewCall("scan", 0, Some(Len(media))))
  /\ UNCHANGED <<loading, cmedia, serverVars>>

ScansNext ==
  \/ ApiScan
  \/ \E c \in 1 .. MaxCalls : c \in DOMAIN calls /\ Serve(c)
  \/ \E id \in PatchIds, st \in Statuses : Patch(id, StatusBody(st))
  \/ Tick

ScansSpec == Init /\ [][ScansNext]_vars

\* ================================================================ claims
Stored(m, fid) == \E i \in DOMAIN m : m[i].file_id = fid

AllStored(m) == \A k \in DOMAIN mockFiles : Stored(m, mockFiles[k].file_id)

IsPrefix(s, t) == Len(s) <= Len(t) /\ \A i \in DOMAIN s : t[i] = s[i]

\* The transition table of the lifecycle state machine.
AllowedTransitions ==
  {<<"Pending", "Uploading">>, <<"Uploading", "Published">>,
   <<"Uploading", "Failed">>, <<"Pending", "Published">>}

\* C1: in every state reachable by scan and media-update requests, no two
\* media records share a file_id.
C1_UniqueFileId ==
  \A i, j \in DOMAIN media : i # j => media[i].file_id # media[j].file_id

\* Two scans and a media update have been served.
C1_Witness ==
  /\ scans >= 2
  /\ Len(media) = Len(mockFiles)
  /\ resp.op = "patch"

\* C2: a scan that finds every discovered file id already stored adds no
\* record, leaves the media table as it was (3 rows) and reports newCount = 0.
C2_RescanIdempotent ==
  [][(Scan /\ AllStored(media))
       => /\ media' = media
          /\ Len(media') = Len(mockFiles)
          /\ resp'.newCount = 0]_vars

\* The second scan has answered.
C2_Witness ==
  /\ scans >= 2
  /\ resp.op = "scan"
  /\ resp.newCount = 0
  /\ Len(media) = Len(mockFiles)

\* C3: a scan gives each discovered file whose file_id is not stored exactly
\* one record, a new one with status Pending, and newCount is the number of
\* rows the scan added.
C3_ScanCreatesPending ==
  [][Scan
       => /\ resp'.newCount = Len(media') - Len(media)
          /\ \A k \in DOMAIN mockFiles :
               ~Stored(media, mockFiles[k].file_id)
                 => LET rows == {i \in DOMAIN media' :
                                   media'[i].file_id = mockFiles[k].file_id}
                    IN  /\ Cardinality(rows) = 1
                        /\ \A i \in rows : i > Len(media) /\ media'[i].status = "Pending"]_vars

\* The first scan has answered: three new rows.
C3_Witness ==
  /\ resp.op = "scan"
  /\ resp.newCount = Len(mockFiles)
  /\ Len(media) = Len(mockFiles)
  /\ \A i \in DOMAIN media : media[i].status = "Pending"

\* C4: for every media record, snapchat_link is set if and only if the
\* status is Published.
C4_LinkIffPublished ==
  \A i \in DOMAIN media :
    (media[i].snapchat_link # None) <=> (media[i].status = "Published")

\* C5: every status change follows the transition table, and a media update
\* that asks for any other status change is rejected with InvalidTransition
\* and changes nothing.
C5_TransitionTable ==
  [][/\ \A i \in DOMAIN media :
          media'[i].status # media[i].status
            => <<media[i].status, media'[i].status>> \in AllowedTransitions
     /\ \A id \in PatchIds, body \in Bodies :
          (/\ Patch(id, body)
           /\ id \in DOMAIN media
           /\ body.status # None
           /\ body.status[1] # media[id].status
           /\ <<media[id].status, body.status[1]>> \notin AllowedTransitions)
            => (resp'.error = "InvalidTransition" /\ media' = media)]_vars

\* C6: publishNow (the media update {status: Published}) on a record that is
\* Published or Failed fails with InvalidTransition and leaves the record as
\* it was.
C6_PublishTerminalRejected ==
  [][\A id \in PatchIds :
       (/\ Patch(id, PublishBody)
        /\ id \in DOMAIN media
        /\ media[id].status \in {"Published", "Failed"})
         => (resp'.error = "InvalidTransition" /\ media'[id] = media[id])]_vars

\* Two handlePublishNow calls for the same record, both issued while the
\* server held the record as Pending, and both answered by the server.
ConcurrentPublishes(c, d) ==
  /\ c \in DOMAIN calls /\ d \in DOMAIN calls /\ c < d
  /\ calls[c].kind = "publish" /\ calls[d].kind = "publish"
  /\ calls[c].id = calls[d].id
  /\ calls[c].atIssue = Some("Pending") /\ calls[d].atIssue = Some("Pending")
  /\ calls[c].pc \in {"resume", "done"} /\ calls[d].pc \in {"resume", "done"}

Succeeded(c) == calls[c].resp.success /\ calls[c].resp.error = "none"

Rejected(c) == ~calls[c].resp.success /\ calls[c].resp.error # "none"

\* C7: of two concurrent publishNow calls on one Pending record, exactly one
\* succeeds and the other is rejected; never both succeed.
C7_PublishOnce ==
  \A c, d \in 1 .. MaxCalls :
    ConcurrentPublishes(c, d)
      => \/ Succeeded(c) /\ Rejected(d)
         \/ Rejected(c) /\ Succeeded(d)

\* C8: setSchedule (a media update of caption and scheduled_time) with a
\* scheduled_time in the past fails with ValidationError and leaves the
\* record as it was; no setSchedule changes the status.
C8_SetScheduleValidated ==
  [][\A id \in PatchIds, body \in Bodies :
       (/\ Patch(id, body)
        /\ id \in DOMAIN media
        /\ body.status = None)
         => /\ media'[id].status = media[id].status
            /\ (body.scheduled_time # None /\ body.scheduled_time[1] < now)
                 => (resp'.error = "ValidationError" /\ media'[id] = media[id])]_vars

DriveScanEntries == {i \in DOMAIN logs : logs[i].action = "Drive Scan"}

\* C9: every scan appends exactly one log entry, action "Drive Scan" and
\* status Success, whatever the number of new files; after n scans the log
\* holds n Drive Scan entries.
C9_OneLogPerScan ==
  /\ [][Scan
          => /\ Len(logs') = Len(logs) + 1
             /\ IsPrefix(logs, logs')
             /\ logs'[Len(logs')].action = "Drive Scan"
             /\ logs'[Len(logs')].status = "Success"]_vars
  /\ [](Cardinality(DriveScanEntries) = scans)

\* A scan that found nothing new has been logged.
C9_Witness ==
  /\ scans = 2
  /\ resp.op = "scan"
  /\ resp.newCount = 0
  /\ Len(logs) = 2
  /\ logs[2].action = "Drive Scan"
  /\ logs[2].status = "Success"

\* C10: the log is append-only: every step leaves the earlier log as a prefix
\* of the later one.
C10_LogAppendOnly == [][IsPrefix(logs, logs')]_vars

\* The log holds two entries and a media update has been served since.
C10_Witness ==
  /\ Len(logs) >= 2
  /\ resp.op = "patch"
  /\ \E i \in DOMAIN media : media[i].status # "Pending"

\* C11: a media update whose id matches no record fails with NotFound and
\* changes no record.
C11_UnknownIdNotFound ==
  [][\A id \in PatchIds, body \in Bodies :
       (Patch(id, body) /\ id \notin DOMAIN media)
         => (resp'.error = "NotFound" /\ media' = media)]_vars

\* C12: when a channel has daily_limit records published today, a further
\* publishNow (or a move to Uploading) of a Pending record fails with
\* QuotaExceeded and the record stays Pending; the records published today
\* never exceed a channel's daily_limit.
C12_DailyLimit ==
  /\ [][\A id \in LifecycleIds, s \in {"Published", "Uploading"} :
          (/\ Patch(id, StatusBody(s))
           /\ id \in DOMAIN media
           /\ media[id].status = "Pending"
           /\ \E c \in DOMAIN channels :
                PublishedToday(media, now) >= channels[c].daily_limit)
            => (resp'.error = "QuotaExceeded" /\ media'[id].status = "Pending")]_vars
  /\ [](\A c \in DOMAIN channels : PublishedToday(media, now) <= channels[c].daily_limit)

\* A publishNow of the dashboard on a record the server held as Pending, whose
\* publish request failed and whose handler has returned.
FailedPublish(c) ==
  /\ c \in DOMAIN calls
  /\ calls[c].kind = "publish"
  /\ calls[c].atIssue = Some("Pending")
  /\ calls[c].pc = "done"
  /\ calls[c].toast = "error"

\* C13: when the publish call of a publishNow on a Pending record fails, the
\* record is Failed, its link is unset, and the log holds a Failure entry with
\* a non-empty error message once the operation has returned.
C13_PublishFailureRecorded ==
  \A c \in 1 .. MaxCalls :
    FailedPublish(c)
      => /\ media[calls[c].id].status = "Failed"
         /\ media[calls[c].id].snapchat_link = None
         /\ \E i \in DOMAIN logs :
              logs[i].status = "Failure" /\ logs[i].error_message # None

\* C14: the stats query returns totalMedia = the number of records, pending =
\* the number of Pending records and failed = the number of Failed records, of
\* the store at the instant of the query; right after the first scan into the
\* empty store it returns totalMedia = 3 and pending = 3.
C14_StatsCounts ==
  [][GetStats
       => /\ resp'.stats.totalMedia = Len(media)
          /\ resp'.stats.pending =
               Cardinality({i \in DOMAIN media : media[i].status = "Pending"})
          /\ resp'.stats.failed =
               Cardinality({i \in DOMAIN media : media[i].status = "Failed"})
          /\ (resp = ScanResp(Len(mockFiles)))
               => (resp'.stats.totalMedia = 3 /\ resp'.stats.pending = 3)]_vars

\* The stats query has answered while a record was Failed and another Pending.
C14_Witness ==
  /\ resp.op = "stats"
  /\ resp.stats.totalMedia = Len(media)
  /\ resp.stats.totalMedia = 3
  /\ resp.stats.pending = 2
  /\ resp.stats.failed = 1

ServedScans == {c \in DOMAIN calls : calls[c].kind = "scan" /\ calls[c].pc # "await"}

\* The sum of the newCount answers of the served scans among calls 1..k.
RECURSIVE SumNewCount(_)
SumNewCount(k) ==
  IF k = 0
    THEN 0
    ELSE (IF k \in ServedScans THEN calls[k].resp.newCount ELSE 0) + SumNewCount(k - 1)

\* C15: however scans that are in flight together are served, each file id
\* has exactly one record, no scan fails, and the newCounts the scans report
\* add up to the rows added.
C15_ConcurrentScansSafe ==
  /\ \A k \in DOMAIN mockFiles :
       Cardinality({i \in DOMAIN media : media[i].file_id = mockFiles[k].file_id})
         = (IF ServedScans = {} THEN 0 ELSE 1)
  /\ \A c \in ServedScans : calls[c].resp.code = 200 /\ calls[c].resp.error = "none"
  /\ SumNewCount(Len(calls)) = Len(media)

\* Two scans sent while the store was empty have both been served.
C15_Witness ==
  /\ Len(calls) >= 2
  /\ calls[1].kind = "scan" /\ calls[2].kind = "scan"
  /\ calls[1].atIssue = Some(0) /\ calls[2].atIssue = Some(0)
  /\ {1, 2} \subseteq ServedScans
  /\ Len(media) = Len(mockFiles)

\* C16: a scan leaves every stored record as it was, in every field, also a
\* record that earlier updates moved out of Pending.
C16_ScanKeepsStoredRows ==
  [][Scan => \A i \in DOMAIN media : i \in DOMAIN media' /\ media'[i] = media[i]]_vars

\* A rescan has been served while record 1 carried a caption and a status
\* other than Pending.
C16_Witness ==
  /\ scans >= 2
  /\ resp.op = "scan"
  /\ Len(media) = Len(mockFiles)
  /\ media[1].status # "Pending"
  /\ media[1].caption # None

\* What a media update with the given body makes of row r.
Patched(r, body) ==
  [r EXCEPT !.caption = IF body.caption # None THEN body.caption ELSE r.caption,
            !.scheduled_time =
               IF body.scheduled_time # None THEN body.scheduled_time ELSE r.scheduled_time,
            !.status = IF body.status # None THEN body.status[1] ELSE r.status]

\* C17: a media update writes the fields its body carries among caption,
\* scheduled_time and status; every other field of the record keeps its value
\* and every other record is unchanged.
\* In every state, whatever update is requested; and in every step that a
\* media update changes the table by, one record changes and only in those
\* three fields.
C17_PartialUpdate ==
  /\ [](\A id \in PatchIds, body \in Bodies :
          LET m == ApplyPatch(media, id, body)
          IN  /\ DOMAIN m = DOMAIN media
              /\ \A i \in DOMAIN media :
                   m[i] = IF i = id THEN Patched(media[i], body) ELSE media[i])
  /\ [][(resp' = PatchResp /\ media' # media)
          => /\ DOMAIN media' = DOMAIN media
             /\ \E id \in DOMAIN media :
                  /\ \A i \in DOMAIN media : i # id => media'[i] = media[i]
                  /\ media'[id] = [media[id] EXCEPT !.caption = media'[id].caption,
                                                    !.scheduled_time = media'[id].scheduled_time,
                                                    !.status = media'[id].status]]_vars

\* A media update has left record 1 with a caption and a status it was given
\* earlier and a scheduled_time never given, the other records untouched.
C17_Witness ==
  /\ resp.op = "patch"
  /\ Len(media) = Len(mockFiles)
  /\ media[1].caption # None
  /\ media[1].scheduled_time = None
  /\ media[1].status = "Uploading"
  /\ media[2].status = "Pending"

Min(a, b) == IF a < b THEN a ELSE b

\* Row r comes before row q: created later, or created together with a
\* larger id.
Before(r, q) ==
  \/ r.created_at > q.created_at
  \/ r.created_at = q.created_at /\ r.id > q.id

\* C18: recentActivity holds the (at most) 5 most recently created records by
\* descending created_at, records of equal created_at by descending id.
C18_RecentActivityOrder ==
  [][GetStats
       => LET r == resp'.recentActivity
          IN  /\ Len(r) = Min(5, Len(media))
              /\ \A i \in DOMAIN r : \E k \in DOMAIN media : r[i] = media[k]
              /\ \A i, j \in DOMAIN r : i < j => Before(r[i], r[j])
              /\ \A k \in DOMAIN media :
                   (\A i \in DOMAIN r : r[i] # media[k])
                     => \A i \in DOMAIN r : Before(r[i], media[k])]_vars

\* C19: no step changes the media or the channels table without adding a log
\* entry.
C19_EveryMutationLogged ==
  [][(media' # media \/ channels' # channels) => Len(logs') > Len(logs)]_vars

ScansInFlight == {c \in DOMAIN calls : calls[c].kind = "scan" /\ calls[c].pc # "done"}

\* C20: the dashboard has at most one handleScan under way, and loading is
\* TRUE from the start of a handleScan until it has handled its response or
\* failure.
C20_SingleScanInFlight ==
  /\ Cardinality(ScansInFlight) <= 1
  /\ ScansInFlight # {} => loading

====
